---- MODULE Spec2Model ----
(***************************************************************************)
(* Scan sources of the SpineAnnotationSlicelet: the iteration protocol of  *)
(* ImageIterator.LocalFileIterator and ImageIterator.SimpleXNAT            *)
(* (__iter__, __next__, get_scan_folder, store_annotations,                *)
(* set_skip_annotated, has_annotation, __exit__) over a catalog, a file    *)
(* system and an XNAT server (Spec); their construction (SpecCtor); and    *)
(* filter_scan of ImageIterator.SimpleXNAT and xnat.SimpleXNAT             *)
(* (SpecFilter).  Of xnat.SimpleXNAT the model has __init__, __iter__,     *)
(* filter_scan and __exit__.                                               *)
(*                                                                         *)
(* Python strings are sequences of tokens (TLA+ strings); the paths of the *)
(* local source are spelled character by character, because str.rstrip     *)
(* works on characters.  Python values that may be None are tagged         *)
(* records.                                                                *)
(***************************************************************************)
EXTENDS Integers, Sequences, FiniteSets, TLC

VARIABLES kind, scansIsFrame, _scans, _filter, _server,
          _current_scan_index, _current_scan, _current_scan_folder,
          _current_annotation, _skip_annotated, _patient,
          dirs, files, tmpCount, serverFiles,
          lastOp, lastResult, ret, sent, copied,
          yielded, everSucceeded, exhausted, passSkip, passStored,
          phase, closed, served, call,
          _project, _subject_label, _session_label, _scan_id, _annotations,
          twin

vars == <<kind, scansIsFrame, _scans, _filter, _server,
          _current_scan_index, _current_scan, _current_scan_folder,
          _current_annotation, _skip_annotated, _patient,
          dirs, files, tmpCount, serverFiles,
          lastOp, lastResult, ret, sent, copied,
          yielded, everSucceeded, exhausted, passSkip, passStored,
          phase, closed, served, call,
          _project, _subject_label, _session_label, _scan_id, _annotations,
          twin>>

\* the fields of a VertebraeAnnotations
annotationVars ==
    <<_project, _subject_label, _session_label, _scan_id, _annotations>>

(***************************************************************************)
(* Bounds of the model.                                                    *)
(***************************************************************************)
MaxLocalRows == 4
MaxRemoteRows == 3
MaxExtraCalls == 2
MaxTmp == 2
MaxKwargs == 2

(***************************************************************************)
(* Python values.                                                          *)
(***************************************************************************)
None == [tag |-> "None"]
False == [tag |-> "bool", b |-> FALSE]
Str(s) == [tag |-> "str", s |-> s]
Frame(rows) == [tag |-> "frame", rows |-> rows]
Pair(a, b) == [tag |-> "tuple", scan |-> a, annotation |-> b]
NoAttr == -1

IsNone(v) == v.tag = "None"

(***************************************************************************)
(* str and os.path functions.                                              *)
(***************************************************************************)
Front(s) == SubSeq(s, 1, Len(s) - 1)
Last(s) == s[Len(s)]

RECURSIVE RStrip(_, _)
RStrip(s, chars) ==
    IF s = <<>> THEN <<>>
    ELSE IF Last(s) \in chars THEN RStrip(Front(s), chars)
    ELSE s

RECURSIVE RFind(_, _)
RFind(s, c) ==
    IF s = <<>> THEN 0
    ELSE IF Last(s) = c THEN Len(s)
    ELSE RFind(Front(s), c)

StartsWith(s, p) == Len(s) >= Len(p) /\ SubSeq(s, 1, Len(p)) = p
EndsWith(s, p) == Len(s) >= Len(p) /\ SubSeq(s, Len(s) - Len(p) + 1, Len(s)) = p

Slash == "/"

DirName(p) ==
    LET i == RFind(p, Slash)
        head == SubSeq(p, 1, i)
    IN  IF head # <<>> /\ (\E k \in 1..Len(head) : head[k] # Slash)
        THEN RStrip(head, {Slash})
        ELSE head

BaseName(p) == SubSeq(p, RFind(p, Slash) + 1, Len(p))

Join(a, b) ==
    IF StartsWith(b, <<Slash>>) THEN b
    ELSE IF a = <<>> \/ EndsWith(a, <<Slash>>) THEN a \o b
    ELSE a \o <<Slash>> \o b

RECURSIVE Split1(_, _)
Split1(s, sep) ==
    IF s = <<>> THEN <<>>
    ELSE IF Head(s) = sep THEN <<>>
    ELSE <<Head(s)>> \o Split1(Tail(s), sep)

Digit(d) == CASE d = 0 -> "0" [] d = 1 -> "1" [] d = 2 -> "2" [] d = 3 -> "3"
              [] d = 4 -> "4" [] d = 5 -> "5" [] d = 6 -> "6" [] d = 7 -> "7"
              [] d = 8 -> "8" [] d = 9 -> "9"

RECURSIVE ToStr(_)
ToStr(n) == IF n < 10 THEN <<Digit(n)>> ELSE ToStr(n \div 10) \o <<Digit(n % 10)>>

NiiGz == <<".", "n", "i", "i", ".", "g", "z">>
NiiGzChars == {NiiGz[k] : k \in 1..Len(NiiGz)}
DotJson == <<".", "j", "s", "o", "n">>

(***************************************************************************)
(* Inputs: the directory handed to LocalFileIterator, the file names       *)
(* os.listdir finds in it, the rows of the XNAT search result.             *)
(***************************************************************************)
AbsDir == <<"/", "d">>
RelDir == <<"d">>
LocalDirs == {AbsDir, RelDir}

StemOf(name) == SubSeq(name, 1, Len(name) - Len(NiiGz))

RowA == [project |-> <<"P">>, subject_id |-> <<"S1">>, session_id |-> <<"E1">>,
         id |-> 3, session_label |-> <<"PAT1", "_", "CT">>]
RowB == [project |-> <<"Q">>, subject_id |-> <<"S2">>, session_id |-> <<"E2">>,
         id |-> 12, session_label |-> <<"SESS1">>]
RowPool == {RowA, RowB}
Servers == {<<"https://xnat">>}

ListingOrders ==
    { << <<"a">>, <<"b">>, <<"b", "i", "n">>, <<"c">>, <<"z">> >>,
      << <<"c">>, <<"b", "i", "n">>, <<"b">> >> }
Min(a, b) == IF a < b THEN a ELSE b
Listings ==
    { [k \in 1..Min(n, Len(o)) |-> o[k] \o NiiGz] :
        o \in ListingOrders, n \in 0..MaxLocalRows }

RowOrders == { <<RowA, RowB, RowA, RowB>>, <<RowB, RowB, RowA, RowA>> }
SearchResults ==
    { SubSeq(o, 1, Min(n, Len(o))) : o \in RowOrders, n \in 0..MaxRemoteRows }

\* pd.read_csv of the body of an error response: a parser error, or a frame
\* whose columns are whatever the first line of the body holds
GarbageRow == [body |-> <<"<html>">>]
GarbageCatalog == <<GarbageRow, GarbageRow>>
HasColumns(row) == "session_label" \in DOMAIN row

(***************************************************************************)
(* The file system: the directories and the regular files that exist.      *)
(***************************************************************************)
IsFile(p) == p \in files
IsDir(p) == p \in dirs

Under(root, p) == StartsWith(p, root \o <<Slash>>)

(***************************************************************************)
(* XNAT REST urls and requests.                                            *)
(***************************************************************************)
ScanUrlSwapped(server, row) ==
    server \o <<"/data/projects/">> \o row.project
           \o <<"/subjects/">> \o row.session_id
           \o <<"/experiments/">> \o row.subject_id
           \o <<"/scans/">> \o ToStr(row.id)

ScanUrl(server, row) ==
    server \o <<"/data/projects/">> \o row.project
           \o <<"/subjects/">> \o row.subject_id
           \o <<"/experiments/">> \o row.session_id
           \o <<"/scans/">> \o ToStr(row.id)

AnnotationName(row) == row.session_label \o <<"-">> \o ToStr(row.id) \o <<".json">>
FolderName(row) == row.session_label \o <<"-">> \o ToStr(row.id)

ResourceUrl(server, row) == ScanUrl(server, row) \o <<"/resources/ANNOTATIONS">>
FileUrl(server, row) == ResourceUrl(server, row) \o <<"/files/">> \o AnnotationName(row)
DicomUrl(server, row) == ScanUrl(server, row) \o <<"/resources/DICOM/files?format=zip">>

Request(method, url, withFile) == [method |-> method, url |-> url, file |-> withFile]

(***************************************************************************)
(* State after construction.                                               *)
(***************************************************************************)
\* no VertebraeAnnotations has been created
NoAnnotations ==
    /\ _project = None
    /\ _subject_label = None
    /\ _session_label = None
    /\ _scan_id = None
    /\ _annotations = <<>>

\* the iteration fields of an xnat.SimpleXNAT that has just been constructed
\* (twin: a second source, of the other variant, fed the same calls)
NewTwin == [index |-> NoAttr, scan |-> None, result |-> "ok"]

InitBase ==
    /\ twin = NewTwin
    /\ _current_scan_index = NoAttr
    /\ _current_scan = None
    /\ _current_scan_folder = None
    /\ _current_annotation = False
    /\ _skip_annotated = FALSE
    /\ _patient = None
    /\ tmpCount = 0
    /\ ret = None
    /\ copied = {}
    /\ closed = FALSE
    /\ served = None
    /\ yielded = <<>>
    /\ everSucceeded = FALSE
    /\ exhausted = FALSE
    /\ passSkip = "none"
    /\ passStored = FALSE

\* the disk of a LocalFileIterator over directory d: the scans listed, any of
\* their annotation files, and (for a relative d) possibly a directory d/d
LocalWorld(d, names, frame) ==
    /\ files \in IF frame THEN {{}}
                 ELSE SUBSET {Join(d, StemOf(names[k]) \o DotJson) :
                                k \in 1..Len(names)}
    /\ dirs \in IF frame THEN {{d}} ELSE {{d}, {d, Join(d, d)}}
    /\ serverFiles = {}

\* the XNAT server of a SimpleXNAT: the annotation files it already holds
RemoteWorld(server) ==
    /\ \E rows \in {{}, RowPool} :
          serverFiles = {FileUrl(server, r) : r \in rows}
    /\ dirs = {}
    /\ files = {}

LocalScans(d, names) == [k \in 1..Len(names) |-> Join(d, names[k])]

SearchUrl(server) == server \o <<"/data/search?format=csv">>

\* the requests _get_scans (_update_scan_list in xnat.py) sends
_get_scans_twice(server) ==
    << Request("POST", SearchUrl(server), TRUE),
       Request("POST", SearchUrl(server), TRUE) >>

_get_scans(server) == << Request("POST", SearchUrl(server), TRUE) >>

AllTrue(rows) == [k \in 1..Len(rows) |-> TRUE]

InitLocal ==
    /\ kind = "local"
    /\ scansIsFrame \in BOOLEAN
    /\ \E d \in LocalDirs :
        \E names \in Listings :
            /\ _scans = LocalScans(d, names)
            /\ LocalWorld(d, names, scansIsFrame)
    /\ _filter = <<>>
    /\ _server = <<>>
    /\ sent = <<>>

InitRemote ==
    /\ kind = "remote"
    /\ scansIsFrame = TRUE
    /\ _scans \in SearchResults
    /\ _filter = AllTrue(_scans)
    /\ _server \in Servers
    /\ RemoteWorld(_server)
    /\ sent = _get_scans(_server)

\* xnat.SimpleXNAT keeps no filter mask
InitXnat ==
    /\ kind = "xnat"
    /\ scansIsFrame = TRUE
    /\ _scans \in SearchResults
    /\ _filter = <<>>
    /\ _server \in Servers
    /\ RemoteWorld(_server)
    /\ sent = _get_scans(_server)

Init ==
    /\ InitBase
    /\ NoAnnotations
    /\ phase = "ready"
    /\ lastOp = "init"
    /\ lastResult = "ok"
    /\ call = <<>>
    /\ (InitLocal \/ InitRemote \/ InitXnat)

(***************************************************************************)
(* ImageIterator: has_annotation, set_skip_annotated, __iter__.            *)
(***************************************************************************)
\* an operation on a constructed source that is neither __exit__,
\* filter_scan nor a download
Running ==
    /\ phase = "ready"
    /\ call' = <<>>
    /\ UNCHANGED <<phase, closed>>
    /\ UNCHANGED annotationVars
    /\ UNCHANGED twin

Steady == Running /\ served' = None

has_annotation(annotation) == annotation # None

HasAnnotation == has_annotation(_current_annotation)

set_skip_annotated_restarts(bool_value) ==
    /\ kind \in {"local", "remote"}
    /\ Steady
    /\ _skip_annotated' = bool_value
    /\ passSkip' = IF passSkip \in {"on", "off"}
                      /\ bool_value # (passSkip = "on")
                   THEN "mixed" ELSE passSkip
    /\ lastOp' = "set_skip_annotated"
    /\ lastResult' = "ok"
    /\ ret' = None
    /\ sent' = <<>>
    /\ copied' = {}
    /\ _current_scan_index' = 0
    /\ UNCHANGED <<kind, scansIsFrame, _scans, _filter, _server,
                   _current_scan, _current_scan_folder,
                   _current_annotation, _patient, dirs, files, tmpCount,
                   serverFiles, yielded, everSucceeded, exhausted,
                   passStored>>

set_skip_annotated(bool_value) ==
    /\ kind \in {"local", "remote"}
    /\ Steady
    /\ _skip_annotated' = bool_value
    /\ passSkip' = IF passSkip \in {"on", "off"}
                      /\ bool_value # (passSkip = "on")
                   THEN "mixed" ELSE passSkip
    /\ lastOp' = "set_skip_annotated"
    /\ lastResult' = "ok"
    /\ ret' = None
    /\ sent' = <<>>
    /\ copied' = {}
    /\ UNCHANGED <<kind, scansIsFrame, _scans, _filter, _server,
                   _current_scan_index, _current_scan, _current_scan_folder,
                   _current_annotation, _patient, dirs, files, tmpCount,
                   serverFiles, yielded, everSucceeded, exhausted,
                   passStored>>

SetSkipAnnotated == \E b \in BOOLEAN : set_skip_annotated(b)

IterIndex == 0

Iter ==
    /\ Steady
    /\ _current_scan_index' = IterIndex
    /\ lastOp' = "iter"
    /\ lastResult' = "ok"
    /\ ret' = None
    /\ sent' = <<>>
    /\ copied' = {}
    /\ yielded' = <<>>
    /\ exhausted' = FALSE
    /\ passSkip' = IF _skip_annotated THEN "on" ELSE "off"
    /\ passStored' = FALSE
    /\ UNCHANGED <<kind, scansIsFrame, _scans, _filter, _server,
                   _current_scan, _current_scan_folder, _current_annotation,
                   _skip_annotated, _patient, dirs, files, tmpCount,
                   serverFiles, everSucceeded>>

(***************************************************************************)
(* LocalFileIterator.__next__.  The call of next(self) inside __next__ is  *)
(* the recursion of LocalNext; what the outer call returns are the fields  *)
(* the inner call left, and an exception of the inner call leaves through  *)
(* the outer one.                                                          *)
(***************************************************************************)
AnnotationPath(scan) == RStrip(scan, NiiGzChars) \o DotJson

LocalProbe(scan) ==
    IF IsFile(AnnotationPath(scan)) THEN Str(AnnotationPath(scan)) ELSE None

NextIndexStuck(i) == i

NextIndex(i) == i + 1

ExhaustedOnlyAtEnd(idx, n) == idx = n

Exhausted(idx, n) == idx >= n

InRange(idx, n) == 0 <= idx /\ idx < n

LocalVisit(st) ==
    LET idx == NextIndex(st.idx) IN
    IF Exhausted(idx, Len(_scans))
    THEN [st EXCEPT !.idx = idx, !.result = "StopIteration"]
    ELSE IF scansIsFrame
    THEN [st EXCEPT !.idx = idx, !.result = "KeyError"]
    ELSE IF ~InRange(idx, Len(_scans))
    THEN [st EXCEPT !.idx = idx, !.result = "IndexError"]
    ELSE LET scan == _scans[idx + 1]
         IN  [idx |-> idx, scan |-> Str(scan),
              folder |-> Str(DirName(scan)),
              annotation |-> LocalProbe(scan),
              depth |-> st.depth + 1,
              result |-> "ok", ret |-> None]

LocalReturn(st) ==
    IF st.result = "ok"
    THEN [st EXCEPT !.ret = Pair(st.scan, st.annotation)]
    ELSE st

LocalNextSkipOnce(st) ==
    LET now == LocalVisit(st) IN
    IF now.result = "ok" /\ _skip_annotated /\ has_annotation(now.annotation)
    THEN LocalReturn(LocalVisit(now))
    ELSE LocalReturn(now)

RECURSIVE LocalNext(_)
LocalNext(st) ==
    LET now == LocalVisit(st) IN
    IF now.result = "ok" /\ _skip_annotated /\ has_annotation(now.annotation)
    THEN LocalNext(now)
    ELSE LocalReturn(now)

LocalStartRewound ==
    [idx |-> -1, scan |-> _current_scan,
     folder |-> _current_scan_folder, annotation |-> _current_annotation,
     depth |-> 0, result |-> "ok", ret |-> None]

LocalStart ==
    [idx |-> _current_scan_index, scan |-> _current_scan,
     folder |-> _current_scan_folder, annotation |-> _current_annotation,
     depth |-> 0, result |-> "ok", ret |-> None]

NextBookkeeping(result, idx) ==
    /\ lastOp' = "next"
    /\ lastResult' = result
    /\ sent' = <<>>
    /\ copied' = {}
    /\ yielded' = IF result = "ok" THEN Append(yielded, idx) ELSE yielded
    /\ everSucceeded' = (everSucceeded \/ result = "ok")
    /\ exhausted' = (exhausted \/ result = "StopIteration")
    /\ UNCHANGED <<passSkip, passStored>>

CallBound ==
    \/ _current_scan_index = NoAttr
    \/ _current_scan_index < Len(_scans) + MaxExtraCalls

LocalNextCall ==
    /\ kind = "local"
    /\ Steady
    /\ CallBound
    /\ IF _current_scan_index = NoAttr
       THEN /\ NextBookkeeping("AttributeError", NoAttr)
            /\ ret' = None
            /\ UNCHANGED <<_current_scan_index, _current_scan,
                           _current_scan_folder, _current_annotation>>
       ELSE LET r == LocalNext(LocalStart) IN
            /\ _current_scan_index' = r.idx
            /\ _current_scan' = r.scan
            /\ _current_scan_folder' = r.folder
            /\ _current_annotation' = r.annotation
            /\ ret' = r.ret
            /\ NextBookkeeping(r.result, r.idx)
    /\ UNCHANGED <<kind, scansIsFrame, _scans, _filter, _server,
                   _skip_annotated, _patient, dirs, files, tmpCount,
                   serverFiles>>

(***************************************************************************)
(* SimpleXNAT.delete_scan_dicom_folder and shutil.rmtree.                  *)
(***************************************************************************)
RmTree(fs, root) ==
    [dirs |-> {d \in fs.dirs : d # root /\ ~Under(root, d)},
     files |-> {f \in fs.files : ~Under(root, f)}]

\* os.path.exists
ExistsAlways(fs, path) == TRUE

Exists(fs, path) == path \in fs.dirs \/ path \in fs.files

\* shutil.rmtree; fails: the operating system refuses a removal
rmtree(fs, root, fails) ==
    IF root \notin fs.dirs THEN [fs |-> fs, result |-> "FileNotFoundError"]
    ELSE IF fails THEN [fs |-> fs, result |-> "OSError"]
    ELSE [fs |-> RmTree(fs, root), result |-> "ok"]

delete_scan_dicom_folder_keep(folder, fs, rmFails) ==
    [folder |-> None, fs |-> fs, result |-> "ok"]

delete_scan_dicom_folder(folder, fs, rmFails) ==
    IF IsNone(folder) THEN [folder |-> folder, fs |-> fs, result |-> "ok"]
    ELSE IF Exists(fs, folder.s)
    THEN LET r == rmtree(fs, folder.s, rmFails) IN
         [folder |-> IF r.result = "ok" THEN None ELSE folder,
          fs |-> r.fs, result |-> r.result]
    ELSE [folder |-> None, fs |-> fs, result |-> "ok"]

Disk == [dirs |-> dirs, files |-> files]

\* whether the removal fails is a choice only when there is something to
\* remove
RmFailures ==
    IF ~IsNone(_current_scan_folder) /\ Exists(Disk, _current_scan_folder.s)
    THEN BOOLEAN ELSE {FALSE}

(***************************************************************************)
(* SimpleXNAT.__next__.                                                    *)
(***************************************************************************)
Masked(rows, mask) ==
    LET keep == {k \in 1..Len(rows) : mask[k]}
        RECURSIVE Pick(_)
        Pick(k) == IF k > Len(rows) THEN <<>>
                   ELSE IF k \in keep THEN <<rows[k]>> \o Pick(k + 1)
                   ELSE Pick(k + 1)
    IN  Pick(1)

TmpDir(k) == <<"/tmp/tmp">> \o ToStr(k)

RemoteNextCall ==
    /\ kind = "remote"
    /\ Steady
    /\ CallBound
    /\ \E rmFails \in RmFailures :
       LET cleaned == IF ~IsNone(_current_scan_folder)
                      THEN delete_scan_dicom_folder(_current_scan_folder, Disk,
                                                    rmFails)
                      ELSE [folder |-> _current_scan_folder, fs |-> Disk,
                            result |-> "ok"]
           idx == NextIndex(_current_scan_index)
           rows == Masked(_scans, _filter)
       IN  IF cleaned.result # "ok"
           THEN /\ NextBookkeeping(cleaned.result, _current_scan_index)
                /\ ret' = None
                /\ UNCHANGED <<_current_scan_index, _current_scan,
                               _current_scan_folder, _patient, tmpCount,
                               dirs, files>>
           ELSE IF _current_scan_index = NoAttr
           THEN /\ NextBookkeeping("AttributeError", NoAttr)
                /\ ret' = None
                /\ _current_scan_folder' = cleaned.folder
                /\ dirs' = cleaned.fs.dirs
                /\ files' = cleaned.fs.files
                /\ UNCHANGED <<_current_scan_index, _current_scan, _patient,
                               tmpCount>>
           ELSE IF Exhausted(idx, Len(rows)) \/ ~InRange(idx, Len(rows))
           THEN /\ NextBookkeeping(IF Exhausted(idx, Len(rows))
                                   THEN "StopIteration" ELSE "IndexError", idx)
                /\ ret' = None
                /\ _current_scan_index' = idx
                /\ _current_scan_folder' = cleaned.folder
                /\ dirs' = cleaned.fs.dirs
                /\ files' = cleaned.fs.files
                /\ UNCHANGED <<_current_scan, _patient, tmpCount>>
           ELSE IF ~HasColumns(rows[idx + 1])
           THEN /\ NextBookkeeping("KeyError", idx)
                /\ ret' = None
                /\ _current_scan_index' = idx
                /\ _current_scan' = Frame(<<rows[idx + 1]>>)
                /\ _current_scan_folder' = cleaned.folder
                /\ dirs' = cleaned.fs.dirs
                /\ files' = cleaned.fs.files
                /\ UNCHANGED <<_patient, tmpCount>>
           ELSE LET row == rows[idx + 1]
                    session == row.session_label
                    tmp == TmpDir(tmpCount + 1)
                IN  /\ tmpCount < MaxTmp
                    /\ NextBookkeeping("ok", idx)
                    /\ _current_scan_index' = idx
                    /\ _current_scan' = Frame(<<row>>)
                    /\ tmpCount' = tmpCount + 1
                    /\ dirs' = cleaned.fs.dirs \cup {tmp}
                    /\ files' = cleaned.fs.files
                    /\ _current_scan_folder' = Str(Join(tmp, FolderName(row)))
                    /\ _patient' = Str(Split1(session, "_"))
                    /\ ret' = Str(session)
    /\ UNCHANGED <<kind, scansIsFrame, _scans, _filter, _server,
                   _current_annotation, _skip_annotated,
                   serverFiles>>

(***************************************************************************)
(* get_scan_folder.  The server answers the GET with a transport error,    *)
(* with a body that is no zip archive, or with an archive; extracting an   *)
(* entry may fail (failAt names the entry, 0 for none).                    *)
(***************************************************************************)
ArchNested == << (<<"A", "/">>),
                 (<<"A", "/", "B", "/">>),
                 (<<"A", "/", "B", "/", "scan001.dcm">>),
                 (<<"A", "/", "scan002.dcm">>) >>
ArchEmpty == << >>
Archives == {ArchNested, ArchEmpty}
Payloads == {[zip |-> FALSE, entries |-> <<>>]}
            \cup {[zip |-> TRUE, entries |-> a] : a \in Archives}

IsDirEntry(e) == Last(e) = Slash

\* zip_info.filename = os.path.basename(zip_info.filename)
ExtractNameKeepPath(e) == e

ExtractName(e) == BaseName(e)

RECURSIVE Extract(_, _, _, _, _)
Extract(fs, entries, k, failAt, target) ==
    IF k > Len(entries) THEN [fs |-> fs, result |-> "ok"]
    ELSE IF IsDirEntry(entries[k]) THEN Extract(fs, entries, k + 1, failAt, target)
    ELSE IF k = failAt THEN [fs |-> fs, result |-> "OSError"]
    ELSE Extract([dirs |-> fs.dirs \cup {target},
                  files |-> fs.files \cup {Join(target, ExtractName(entries[k]))}],
                 entries, k + 1, failAt, target)

FailPoints(entries) ==
    {0} \cup {k \in 1..Len(entries) : ~IsDirEntry(entries[k])}

OpBookkeeping(op, result) ==
    /\ lastOp' = op
    /\ lastResult' = result
    /\ UNCHANGED <<yielded, everSucceeded, exhausted, passSkip>>

LocalGetScanFolder ==
    /\ kind = "local"
    /\ Steady
    /\ OpBookkeeping("get_scan_folder", "ok")
    /\ ret' = _current_scan_folder
    /\ sent' = <<>>
    /\ copied' = {}
    /\ UNCHANGED <<kind, scansIsFrame, _scans, _filter, _server,
                   _current_scan_index, _current_scan, _current_scan_folder,
                   _current_annotation, _skip_annotated, _patient,
                   dirs, files, tmpCount, serverFiles,
                   passStored>>

RemoteGetScanFolder ==
    /\ kind = "remote"
    /\ Running
    /\ copied' = {}
    /\ IF IsNone(_current_scan_folder)
       THEN /\ OpBookkeeping("get_scan_folder", "TypeError")
            /\ ret' = None
            /\ sent' = <<>>
            /\ served' = None
            /\ UNCHANGED <<dirs, files>>
       ELSE LET filename == _current_scan_folder.s \o <<".zip">>
                url == DicomUrl(_server, _current_scan.rows[1])
            IN  /\ sent' = <<Request("GET", url, FALSE)>>
                /\ \/ /\ OpBookkeeping("get_scan_folder", "ConnectionError")
                      /\ ret' = None
                      /\ served' = None
                      /\ UNCHANGED <<dirs, files>>
                   \/ \E payload \in Payloads :
                      \E failAt \in FailPoints(payload.entries) :
                        /\ served' = payload
                        /\ LET saved == [dirs |-> dirs,
                                         files |-> files \cup {filename}]
                               x == Extract(saved, payload.entries, 1, failAt,
                                            _current_scan_folder.s)
                           IN  IF ~payload.zip
                               THEN /\ OpBookkeeping("get_scan_folder", "BadZipFile")
                                    /\ ret' = None
                                    /\ dirs' = saved.dirs
                                    /\ files' = saved.files
                               ELSE IF x.result # "ok"
                               THEN /\ OpBookkeeping("get_scan_folder", x.result)
                                    /\ ret' = None
                                    /\ dirs' = x.fs.dirs
                                    /\ files' = x.fs.files
                               ELSE /\ OpBookkeeping("get_scan_folder", "ok")
                                    /\ ret' = _current_scan_folder
                                    /\ dirs' = x.fs.dirs
                                    /\ files' = x.fs.files \ {filename}
    /\ UNCHANGED <<kind, scansIsFrame, _scans, _filter, _server,
                   _current_scan_index, _current_scan, _current_scan_folder,
                   _current_annotation, _skip_annotated, _patient,
                   tmpCount, serverFiles, passStored>>

(***************************************************************************)
(* store_annotations.  srcExists: the annotation file handed in can be     *)
(* opened.  A PUT ends "ok", with an HTTP error response ("http_error",    *)
(* which requests returns like any response) or with a transport error     *)
(* (which requests raises).                                                *)
(***************************************************************************)
Outcomes == {"ok", "http_error", "transport_error"}

LocalDst(folder, scan) == Join(folder, RStrip(scan, NiiGzChars) \o DotJson)

LocalStoreAnnotations ==
    /\ kind = "local"
    /\ Steady
    /\ sent' = <<>>
    /\ ret' = None
    /\ \E srcExists \in BOOLEAN :
        IF IsNone(_current_scan)
        THEN /\ OpBookkeeping("store_annotations", "AttributeError")
             /\ copied' = {}
             /\ UNCHANGED <<files, passStored>>
        ELSE LET dst == LocalDst(_current_scan_folder.s, _current_scan.s) IN
             IF ~srcExists \/ ~IsDir(DirName(dst))
             THEN /\ OpBookkeeping("store_annotations", "FileNotFoundError")
                  /\ copied' = {}
                  /\ UNCHANGED <<files, passStored>>
             ELSE /\ OpBookkeeping("store_annotations", "ok")
                  /\ copied' = {dst}
                  /\ files' = files \cup {dst}
                  /\ passStored' = TRUE
    /\ UNCHANGED <<kind, scansIsFrame, _scans, _filter, _server,
                   _current_scan_index, _current_scan, _current_scan_folder,
                   _current_annotation, _skip_annotated, _patient,
                   dirs, tmpCount, serverFiles>>

StoreRequests(server, row) ==
    << Request("PUT", ResourceUrl(server, row), FALSE),
       Request("PUT", FileUrl(server, row), TRUE) >>

RemoteStoreAnnotations ==
    /\ kind = "remote"
    /\ Steady
    /\ ret' = None
    /\ copied' = {}
    /\ IF IsNone(_current_scan)
       THEN /\ OpBookkeeping("store_annotations", "TypeError")
            /\ sent' = <<>>
            /\ UNCHANGED serverFiles
       ELSE IF ~HasColumns(_current_scan.rows[1])
       THEN /\ OpBookkeeping("store_annotations", "KeyError")
            /\ sent' = <<>>
            /\ UNCHANGED serverFiles
       ELSE LET reqs == StoreRequests(_server, _current_scan.rows[1]) IN
            \E o1 \in Outcomes :
              IF o1 = "transport_error"
              THEN /\ OpBookkeeping("store_annotations", "ConnectionError")
                   /\ sent' = SubSeq(reqs, 1, 1)
                   /\ UNCHANGED serverFiles
              ELSE \E srcExists \in BOOLEAN :
                IF ~srcExists
                THEN /\ OpBookkeeping("store_annotations", "FileNotFoundError")
                     /\ sent' = SubSeq(reqs, 1, 1)
                     /\ UNCHANGED serverFiles
                ELSE \E o2 \in Outcomes :
                  IF o2 = "transport_error"
                  THEN /\ OpBookkeeping("store_annotations", "ConnectionError")
                       /\ sent' = reqs
                       /\ UNCHANGED serverFiles
                  ELSE /\ OpBookkeeping("store_annotations", "ok")
                       /\ sent' = reqs
                       /\ serverFiles' = IF o2 = "ok"
                                         THEN serverFiles \cup {reqs[2].url}
                                         ELSE serverFiles
    /\ UNCHANGED <<kind, scansIsFrame, _scans, _filter, _server,
                   _current_scan_index, _current_scan, _current_scan_folder,
                   _current_annotation, _skip_annotated, _patient,
                   dirs, files, tmpCount, passStored>>

(***************************************************************************)
(* __exit__.  LocalFileIterator.__exit__ only returns.  SimpleXNAT.__exit__ *)
(* (both variants) deletes the working directory, closes the session and   *)
(* sends DELETE <server>/data/JSESSION through it; requests.Session.close  *)
(* releases the connection pool, and the session still sends afterwards.   *)
(***************************************************************************)
SessionUrl(server) == server \o <<"/data/JSESSION">>

SessionDelete(server) == Request("DELETE", SessionUrl(server), FALSE)

LocalExit ==
    /\ kind = "local"
    /\ Steady
    /\ OpBookkeeping("exit", "ok")
    /\ ret' = None
    /\ sent' = <<>>
    /\ copied' = {}
    /\ UNCHANGED <<kind, scansIsFrame, _scans, _filter, _server,
                   _current_scan_index, _current_scan, _current_scan_folder,
                   _current_annotation, _skip_annotated, _patient,
                   dirs, files, tmpCount, serverFiles, passStored>>

RemoteExit ==
    /\ kind \in {"remote", "xnat"}
    /\ phase = "ready"
    /\ ret' = None
    /\ copied' = {}
    /\ call' = <<>>
    /\ served' = None
    /\ \E rmFails \in RmFailures :
       LET cleaned == delete_scan_dicom_folder(_current_scan_folder, Disk,
                                               rmFails)
       IN  /\ _current_scan_folder' = cleaned.folder
           /\ dirs' = cleaned.fs.dirs
           /\ files' = cleaned.fs.files
           /\ IF cleaned.result # "ok"
              THEN /\ OpBookkeeping("exit", cleaned.result)
                   /\ sent' = <<>>
                   /\ UNCHANGED closed
              ELSE /\ closed' = TRUE
                   /\ sent' = <<SessionDelete(_server)>>
                   /\ \E o \in Outcomes :
                        OpBookkeeping("exit", IF o = "transport_error"
                                              THEN "ConnectionError" ELSE "ok")
    /\ UNCHANGED <<kind, scansIsFrame, _scans, _filter, _server,
                   _current_scan_index, _current_scan,
                   _current_annotation, _skip_annotated, _patient,
                   tmpCount, serverFiles, passStored, phase>>
    /\ UNCHANGED annotationVars
    /\ UNCHANGED twin

Next ==
    \/ Iter
    \/ SetSkipAnnotated
    \/ LocalNextCall
    \/ RemoteNextCall
    \/ LocalGetScanFolder
    \/ RemoteGetScanFolder
    \/ LocalStoreAnnotations
    \/ RemoteStoreAnnotations
    \/ LocalExit
    \/ RemoteExit

Spec == Init /\ [][Next]_vars

(***************************************************************************)
(* Construction.  Before __init__ runs the state holds the disk, the        *)
(* server and the constructor call: for SimpleXNAT whether user and pwd    *)
(* are both given, what ~/.netrc holds for the server and whether the xml  *)
(* query file can be opened; for LocalFileIterator whether the path is a   *)
(* directory and whether it exists.  A construction that returns leaves a  *)
(* state of Init, or a source over the parsed body of an error response.   *)
(***************************************************************************)
NetrcStates == {"nofile", "noentry", "entry"}

InitCtor ==
    /\ InitBase
    /\ NoAnnotations
    /\ phase = "new"
    /\ lastOp = "new"
    /\ lastResult = "ok"
    /\ kind \in {"local", "remote", "xnat"}
    /\ scansIsFrame = FALSE
    /\ _scans = None
    /\ _filter = <<>>
    /\ _server = <<>>
    /\ sent = <<>>
    /\ IF kind = "local"
       THEN /\ \E d \in LocalDirs, names \in Listings, frame \in BOOLEAN :
                  LocalWorld(d, names, frame)
            /\ call \in [op : {"__init__"}, isdir : BOOLEAN, exists : BOOLEAN]
            /\ call.isdir => call.exists
       ELSE /\ call \in [op : {"__init__"}, server : Servers,
                          explicit : BOOLEAN, netrc : NetrcStates,
                          xml : BOOLEAN]
            /\ RemoteWorld(call.server)

\* if user is None or pwd is None: netrc.netrc().authenticators(server)
NetrcLookupSkipped(explicit, netrc) == "ok"

NetrcLookup(explicit, netrc) ==
    IF explicit THEN "ok"
    ELSE IF netrc = "nofile" THEN "FileNotFoundError"
    ELSE IF netrc = "noentry" THEN "TypeError"
    ELSE "ok"

ConstructFrame ==
    /\ call' = <<>>
    /\ lastOp' = "init"
    /\ UNCHANGED annotationVars
    /\ UNCHANGED twin
    /\ UNCHANGED <<kind, _current_scan_index, _current_scan,
                   _current_scan_folder, _current_annotation, _skip_annotated,
                   _patient, dirs, files, tmpCount, serverFiles, ret, copied,
                   yielded, everSucceeded, exhausted, passSkip, passStored,
                   closed, served>>

ConstructFails(result, requests) ==
    /\ phase' = "failed"
    /\ lastResult' = result
    /\ sent' = requests
    /\ UNCHANGED <<scansIsFrame, _scans, _filter>>

Installs(rows, frame, mask, requests) ==
    /\ phase' = "ready"
    /\ lastResult' = "ok"
    /\ sent' = requests
    /\ _scans' = rows
    /\ scansIsFrame' = frame
    /\ _filter' = mask

ConstructLocal ==
    /\ phase = "new"
    /\ kind = "local"
    /\ ConstructFrame
    /\ UNCHANGED _server
    /\ IF ~call.exists
       THEN ConstructFails("FileNotFoundError", <<>>)
       ELSE \E d \in LocalDirs, names \in Listings :
              /\ LocalWorld(d, names, ~call.isdir)
              /\ Installs(LocalScans(d, names), ~call.isdir, <<>>, <<>>)

ConstructRemote ==
    /\ phase = "new"
    /\ kind \in {"remote", "xnat"}
    /\ ConstructFrame
    /\ _server' = call.server
    /\ LET auth == NetrcLookup(call.explicit, call.netrc)
           reqs == _get_scans(call.server)
           mask(rows) == IF kind = "remote" THEN AllTrue(rows) ELSE <<>>
       IN  IF auth # "ok" THEN ConstructFails(auth, <<>>)
           ELSE IF ~call.xml THEN ConstructFails("FileNotFoundError", <<>>)
           ELSE \E o \in Outcomes :
                  IF o = "transport_error"
                  THEN ConstructFails("ConnectionError", reqs)
                  ELSE IF o = "http_error"
                  THEN \/ ConstructFails("ParserError", reqs)
                       \/ Installs(GarbageCatalog, TRUE, mask(GarbageCatalog),
                                   reqs)
                  ELSE \E rows \in SearchResults :
                         Installs(rows, TRUE, mask(rows), reqs)

(***************************************************************************)
(* filter_scan of the two SimpleXNAT classes.  kwargs is the sequence of   *)
(* the keyword names in call order.  filter_scan assigns no field and      *)
(* always raises, so it is left out of Next and has a specification of    *)
(* its own, over a source that is iterated.                                *)
(***************************************************************************)
Headers ==
    {"subject_id", "session_label", "session_id", "id", "project", "note",
     "parameters_orientation", "frames,bodypartexamined",
     "parameters_imagetype", "uid", "series_description",
     "quarantine_status"}

FieldNames == {"id", "project", "frames", "age"}

RECURSIVE SeqsUpTo(_, _)
SeqsUpTo(S, n) ==
    IF n = 0 THEN {<<>>}
    ELSE LET shorter == SeqsUpTo(S, n - 1) IN
         shorter \cup {Append(q, x) : q \in shorter, x \in S}

Distinct(q) == \A i, j \in 1..Len(q) : i # j => q[i] # q[j]

Kwargs == {q \in SeqsUpTo(FieldNames, MaxKwargs) : Distinct(q)}

RECURSIVE Unknown(_)
Unknown(kwargs) ==
    IF kwargs = <<>> THEN <<>>
    ELSE IF kwargs[1] \in Headers THEN Unknown(Tail(kwargs))
    ELSE <<kwargs[1]>> \o Unknown(Tail(kwargs))

\* ImageIterator.SimpleXNAT.filter_scan
filter_scan(kwargs) ==
    LET unknown_header == Unknown(kwargs) IN
    IF unknown_header # <<>>
    THEN [result |-> "KeyError", key |-> Str(unknown_header[1])]
    ELSE [result |-> "NotImplementedError", key |-> None]

\* xnat.SimpleXNAT.filter_scan takes kargs and reads the undefined name args
xnat_filter_scan(kargs) == [result |-> "NameError", key |-> None]

FilterScan ==
    /\ kind \in {"remote", "xnat"}
    /\ phase = "ready"
    /\ \E kwargs \in Kwargs :
         LET r == IF kind = "remote" THEN filter_scan(kwargs)
                  ELSE xnat_filter_scan(kwargs)
         IN  /\ call' = kwargs
             /\ lastOp' = "filter_scan"
             /\ lastResult' = r.result
             /\ ret' = r.key
    /\ sent' = <<>>
    /\ copied' = {}
    /\ served' = None
    /\ UNCHANGED <<kind, scansIsFrame, _scans, _filter, _server,
                   _current_scan_index, _current_scan, _current_scan_folder,
                   _current_annotation, _skip_annotated, _patient,
                   dirs, files, tmpCount, serverFiles,
                   yielded, everSucceeded, exhausted, passSkip, passStored,
                   phase, closed>>
    /\ UNCHANGED annotationVars
    /\ UNCHANGED twin

InitFilter == Init /\ kind \in {"remote", "xnat"}

NextFilter == Iter \/ RemoteNextCall \/ FilterScan

SpecFilter == InitFilter /\ [][NextFilter]_vars

NextCtor == ConstructLocal \/ ConstructRemote \/ Next

SpecCtor == InitCtor /\ [][NextCtor]_vars

(***************************************************************************)
(* vertebrae_annotation.VertebraeAnnotations.  A coordinate is a Python    *)
(* tuple of three values, each None or an int; _annotations is the dict    *)
(* from label to coordinate, whose key order is that of labels.  to_json   *)
(* is json.dumps of a dict: the text is a sequence of tokens (a string     *)
(* literal is a quote, its content and a quote; a number is its digits).   *)
(***************************************************************************)
PyInt(n) == [tag |-> "int", n |-> n]
Tuple(items) == [tag |-> "tuple", items |-> items]
List(items) == [tag |-> "list", items |-> items]
Dict(keys, map) == [tag |-> "dict", keys |-> keys, map |-> map]

labels_without_S3 ==
    <<"C1", "C2", "C3", "T1", "T2", "T3", "L1", "L2", "L3", "S1", "S2">>

labels ==
    <<"C1", "C2", "C3", "T1", "T2", "T3", "L1", "L2", "L3", "S1", "S2", "S3">>

Range(q) == {q[k] : k \in 1..Len(q)}

\* dict.fromkeys(labels, (None, None, None))
FromKeys(keys, value) == [l \in Range(keys) |-> value]

\* the labels and the coordinates the calls are made with, and the
\* constructor arguments
CallLabels == {"C1", "L2", "S3", "X9", "c1"}
Points == {Tuple(<<PyInt(1), PyInt(2), PyInt(3)>>),
           Tuple(<<PyInt(40), PyInt(0), None>>),
           Tuple(<<None, None, None>>)}
Metadata == {[project |-> Str(<<"test">>), subject |-> Str(<<"sub">>),
              session |-> Str(<<"sess">>), scan |-> Str(<<"scan">>)],
             [project |-> Str(<<"MSKGSTT">>), subject |-> Str(<<"S1">>),
              session |-> Str(<<"PAT1", "_", "CT">>), scan |-> PyInt(12)]}

get_labels_open(annotations) == DOMAIN annotations \cup {"X9"}

get_labels(annotations) == DOMAIN annotations

\* self._annotations[label] = value: replaces the value of a key, or adds
\* the key
SetItem(annotations, label, value) ==
    [l \in DOMAIN annotations \cup {label} |->
        IF l = label THEN value ELSE annotations[l]]

set_coordinate_yy(annotations, label, x, y, z) ==
    IF label \notin get_labels(annotations)
    THEN [result |-> "KeyError", annotations |-> annotations]
    ELSE [result |-> "ok",
          annotations |-> SetItem(annotations, label, Tuple(<<x, y, y>>))]

set_coordinate(annotations, label, x, y, z) ==
    IF label \notin get_labels(annotations)
    THEN [result |-> "KeyError", annotations |-> annotations]
    ELSE [result |-> "ok",
          annotations |-> SetItem(annotations, label, Tuple(<<x, y, z>>))]

get_coordinate(annotations, label) ==
    IF label \notin get_labels(annotations) \/ label \notin DOMAIN annotations
    THEN [result |-> "KeyError", value |-> None]
    ELSE [result |-> "ok", value |-> annotations[label]]

\* the keys of the dict in insertion order: the labels, then any key added
\* later
KeysOf(annotations) ==
    LET extra == DOMAIN annotations \ Range(labels)
        RECURSIVE Order(_)
        Order(S) == IF S = {} THEN <<>>
                    ELSE LET x == CHOOSE y \in S : TRUE
                         IN  <<x>> \o Order(S \ {x})
    IN  SelectSeq(labels, LAMBDA l : l \in DOMAIN annotations) \o Order(extra)

(***************************************************************************)
(* json.dumps with its default separators, and json.loads.                 *)
(***************************************************************************)
Quote == "\""

EncodeNoneAsZero == <<"0">>

EncodeNone == <<"null">>

RECURSIVE Dumps(_), DumpsItems(_), DumpsMembers(_, _)
Dumps(v) ==
    CASE v.tag = "None" -> EncodeNone
      [] v.tag = "int" -> ToStr(v.n)
      [] v.tag = "str" -> <<Quote>> \o v.s \o <<Quote>>
      [] v.tag \in {"tuple", "list"} -> <<"[">> \o DumpsItems(v.items) \o <<"]">>
      [] v.tag = "dict" -> <<"{">> \o DumpsMembers(v.keys, v.map) \o <<"}">>

DumpsItems(items) ==
    IF items = <<>> THEN <<>>
    ELSE IF Len(items) = 1 THEN Dumps(items[1])
    ELSE Dumps(items[1]) \o <<",", " ">> \o DumpsItems(Tail(items))

DumpsMembers(keys, map) ==
    IF keys = <<>> THEN <<>>
    ELSE LET member == <<Quote, keys[1], Quote, ":", " ">> \o Dumps(map[keys[1]])
         IN  IF Len(keys) = 1 THEN member
             ELSE member \o <<",", " ">> \o DumpsMembers(Tail(keys), map)

Digits == {Digit(d) : d \in 0..9}
DigitValue(c) == CHOOSE d \in 0..9 : Digit(d) = c

RECURSIVE SkipSpace(_, _)
SkipSpace(t, i) ==
    IF i <= Len(t) /\ t[i] = " " THEN SkipSpace(t, i + 1) ELSE i

RECURSIVE LoadsNumber(_, _, _)
LoadsNumber(t, i, n) ==
    IF i <= Len(t) /\ t[i] \in Digits
    THEN LoadsNumber(t, i + 1, 10 * n + DigitValue(t[i]))
    ELSE [v |-> PyInt(n), i |-> i]

RECURSIVE LoadsString(_, _, _)
LoadsString(t, i, s) ==
    IF t[i] = Quote THEN [v |-> Str(s), i |-> i + 1]
    ELSE LoadsString(t, i + 1, Append(s, t[i]))

RECURSIVE LoadsValue(_, _), LoadsItems(_, _, _), LoadsMembers(_, _, _, _)
LoadsValue(t, i0) ==
    LET i == SkipSpace(t, i0) IN
    CASE t[i] = "null" -> [v |-> None, i |-> i + 1]
      [] t[i] = Quote -> LoadsString(t, i + 1, <<>>)
      [] t[i] \in Digits -> LoadsNumber(t, i, 0)
      [] t[i] = "[" -> LoadsItems(t, i + 1, <<>>)
      [] t[i] = "{" -> LoadsMembers(t, i + 1, <<>>, <<>>)

LoadsItems(t, i0, items) ==
    LET i == SkipSpace(t, i0) IN
    IF t[i] = "]" THEN [v |-> List(items), i |-> i + 1]
    ELSE IF t[i] = "," THEN LoadsItems(t, i + 1, items)
    ELSE LET r == LoadsValue(t, i) IN LoadsItems(t, r.i, Append(items, r.v))

LoadsMembers(t, i0, keys, map) ==
    LET i == SkipSpace(t, i0) IN
    IF t[i] = "}" THEN [v |-> Dict(keys, map), i |-> i + 1]
    ELSE IF t[i] = "," THEN LoadsMembers(t, i + 1, keys, map)
    ELSE LET k == LoadsString(t, i + 1, <<>>)
             colon == SkipSpace(t, k.i)
             r == LoadsValue(t, colon + 1)
             key == k.v.s[1]
         IN  LoadsMembers(t, r.i,
                          IF key \in DOMAIN map THEN keys ELSE Append(keys, key),
                          [x \in DOMAIN map \cup {key} |->
                              IF x = key THEN r.v ELSE map[x]])

Loads(t) == LoadsValue(t, 1).v

to_json(project, subject_label, session_label, scan_id, annotations) ==
    Dumps(Dict(<<"project", "subject", "session", "scan", "annotations">>,
               [k \in {"project", "subject", "session", "scan", "annotations"} |->
                  CASE k = "project" -> project
                    [] k = "subject" -> subject_label
                    [] k = "session" -> session_label
                    [] k = "scan" -> scan_id
                    [] k = "annotations" ->
                         Dict(KeysOf(annotations), annotations)]))

(***************************************************************************)
(* The specification of a VertebraeAnnotations: __init__, then any         *)
(* set_coordinate, get_coordinate and to_json calls.  No scan source       *)
(* exists in this specification.                                           *)
(***************************************************************************)
NoSource ==
    /\ InitBase
    /\ kind = "none"
    /\ phase = "ready"
    /\ scansIsFrame = FALSE
    /\ _scans = None
    /\ _filter = <<>>
    /\ _server = <<>>
    /\ dirs = {}
    /\ files = {}
    /\ serverFiles = {}
    /\ sent = <<>>

InitAnnotations ==
    /\ NoSource
    /\ lastOp = "init"
    /\ lastResult = "ok"
    /\ call = <<>>
    /\ \E m \in Metadata :
         /\ _project = m.project
         /\ _subject_label = m.subject
         /\ _session_label = m.session
         /\ _scan_id = m.scan
    /\ _annotations = FromKeys(labels, Tuple(<<None, None, None>>))

AnnotationsFrame ==
    UNCHANGED <<kind, scansIsFrame, _scans, _filter, _server,
                _current_scan_index, _current_scan, _current_scan_folder,
                _current_annotation, _skip_annotated, _patient,
                dirs, files, tmpCount, serverFiles, sent, copied,
                yielded, everSucceeded, exhausted, passSkip, passStored,
                phase, closed, served, twin,
                _project, _subject_label, _session_label, _scan_id>>

SetCoordinate ==
    /\ kind = "none"
    /\ \E label \in CallLabels, p \in Points :
         LET r == set_coordinate(_annotations, label,
                                 p.items[1], p.items[2], p.items[3])
         IN  /\ call' = [label |-> label, point |-> p]
             /\ lastOp' = "set_coordinate"
             /\ lastResult' = r.result
             /\ ret' = None
             /\ _annotations' = r.annotations
    /\ AnnotationsFrame

GetCoordinate ==
    /\ kind = "none"
    /\ \E label \in CallLabels :
         LET r == get_coordinate(_annotations, label)
         IN  /\ call' = [label |-> label]
             /\ lastOp' = "get_coordinate"
             /\ lastResult' = r.result
             /\ ret' = r.value
    /\ UNCHANGED _annotations
    /\ AnnotationsFrame

ToJson ==
    /\ kind = "none"
    /\ call' = <<>>
    /\ lastOp' = "to_json"
    /\ lastResult' = "ok"
    /\ ret' = Str(to_json(_project, _subject_label, _session_label, _scan_id,
                          _annotations))
    /\ UNCHANGED _annotations
    /\ AnnotationsFrame

NextAnnotations == SetCoordinate \/ GetCoordinate \/ ToJson

SpecAnnotations == InitAnnotations /\ [][NextAnnotations]_vars

(***************************************************************************)
(* load_annotation.  slicer.util.loadMarkups is handed _current_annotation *)
(* as it is.  With the path of an existing file it returns the loaded      *)
(* node, whose ID the method returns; with anything else the load fails:   *)
(* depending on the Slicer release loadMarkups raises RuntimeError or      *)
(* returns a value without GetID (AttributeError).  SimpleXNAT does not    *)
(* override the abstract method.                                           *)
(***************************************************************************)
LoadFailures == {"RuntimeError", "AttributeError"}

NodeID(path) == [tag |-> "node", file |-> path]

loadMarkups(annotation, failure) ==
    IF annotation.tag = "str" /\ IsFile(annotation.s)
    THEN [result |-> "ok", value |-> NodeID(annotation.s)]
    ELSE [result |-> failure, value |-> None]

LoadFrame ==
    /\ Steady
    /\ sent' = <<>>
    /\ copied' = {}
    /\ UNCHANGED <<kind, scansIsFrame, _scans, _filter, _server,
                   _current_scan_index, _current_scan, _current_scan_folder,
                   _current_annotation, _skip_annotated, _patient,
                   dirs, files, tmpCount, serverFiles, passStored>>

LocalLoadAnnotation ==
    /\ kind = "local"
    /\ \E failure \in LoadFailures :
         LET r == loadMarkups(_current_annotation, failure)
         IN  /\ OpBookkeeping("load_annotation", r.result)
             /\ ret' = r.value
    /\ LoadFrame

RemoteLoadAnnotation ==
    /\ kind = "remote"
    /\ OpBookkeeping("load_annotation", "NotImplementedError")
    /\ ret' = None
    /\ LoadFrame

NextLoad ==
    \/ Iter
    \/ SetSkipAnnotated
    \/ LocalNextCall
    \/ RemoteNextCall
    \/ LocalLoadAnnotation
    \/ RemoteLoadAnnotation

InitLoad == Init /\ kind \in {"local", "remote"}

SpecLoad == InitLoad /\ [][NextLoad]_vars

(***************************************************************************)
(* xnat.SimpleXNAT.__next__.  The index is tested before it is             *)
(* incremented, the row at the old index becomes the current scan, and the *)
(* folder is a fixed name in the system's temporary directory.             *)
(***************************************************************************)
GetTempDir == <<"/tmp">>

XnatFileName(row) == FolderName(row) \o DotJson

XnatNextCall ==
    /\ kind = "xnat"
    /\ Steady
    /\ \E rmFails \in RmFailures :
       LET cleaned == IF ~IsNone(_current_scan_folder)
                      THEN delete_scan_dicom_folder(_current_scan_folder, Disk,
                                                    rmFails)
                      ELSE [folder |-> _current_scan_folder, fs |-> Disk,
                            result |-> "ok"]
           i == _current_scan_index
       IN  IF cleaned.result # "ok"
           THEN /\ NextBookkeeping(cleaned.result, i)
                /\ ret' = None
                /\ UNCHANGED <<_current_scan_index, _current_scan,
                               _current_scan_folder, dirs, files>>
           ELSE IF i = NoAttr
           THEN /\ NextBookkeeping("AttributeError", NoAttr)
                /\ ret' = None
                /\ _current_scan_folder' = cleaned.folder
                /\ dirs' = cleaned.fs.dirs
                /\ files' = cleaned.fs.files
                /\ UNCHANGED <<_current_scan_index, _current_scan>>
           ELSE IF Exhausted(i, Len(_scans))
           THEN /\ NextBookkeeping("StopIteration", i)
                /\ ret' = None
                /\ _current_scan_folder' = cleaned.folder
                /\ dirs' = cleaned.fs.dirs
                /\ files' = cleaned.fs.files
                /\ UNCHANGED <<_current_scan_index, _current_scan>>
           ELSE IF ~HasColumns(_scans[i + 1])
           THEN /\ NextBookkeeping("KeyError", i)
                /\ ret' = None
                /\ _current_scan_index' = NextIndex(i)
                /\ _current_scan' = Frame(<<_scans[i + 1]>>)
                /\ _current_scan_folder' = cleaned.folder
                /\ dirs' = cleaned.fs.dirs
                /\ files' = cleaned.fs.files
           ELSE LET row == _scans[i + 1]
                IN  /\ NextBookkeeping("ok", i)
                    /\ _current_scan_index' = NextIndex(i)
                    /\ _current_scan' = Frame(<<row>>)
                    /\ _current_scan_folder' =
                           Str(Join(GetTempDir, XnatFileName(row)))
                    /\ dirs' = cleaned.fs.dirs
                    /\ files' = cleaned.fs.files
                    /\ ret' = Frame(<<row>>)
    /\ UNCHANGED <<kind, scansIsFrame, _scans, _filter, _server,
                   _current_annotation, _skip_annotated, _patient, tmpCount,
                   serverFiles>>

NextWorkDir == Iter \/ RemoteNextCall \/ XnatNextCall

InitWorkDir == Init /\ kind \in {"remote", "xnat"}

SpecWorkDir == InitWorkDir /\ [][NextWorkDir]_vars

(***************************************************************************)
(* VertebraLocatorWidget: the handlers of the Load, Confirm and Cancel     *)
(* buttons, as the calls they make on the image iterator.  The handlers    *)
(* run one at a time on the GUI thread; lastOp holds the position of the   *)
(* running handler, and a button is handled only when none is running.     *)
(* An exception leaves the handler through tryWithErrorDisplay, so the     *)
(* statements after the failing call are not executed.  load_volume and    *)
(* has_annotation, called by _next after next(), assign nothing in the     *)
(* iterator.                                                               *)
(***************************************************************************)
ConfirmProceedsAlways(result) == TRUE

ConfirmProceeds(result) == result = "ok"

Idle ==
    \/ lastOp = "next"
    \/ lastOp = "store_annotations" /\ ~ConfirmProceeds(lastResult)

GuiNext == LocalNextCall \/ RemoteNextCall

Pressed(button) ==
    /\ kind \in {"local", "remote"}
    /\ Idle
    /\ Steady
    /\ lastOp' = button
    /\ UNCHANGED <<kind, scansIsFrame, _scans, _filter, _server,
                   _current_scan_index, _current_scan, _current_scan_folder,
                   _current_annotation, _skip_annotated, _patient,
                   dirs, files, tmpCount, serverFiles, lastResult, ret, sent,
                   copied, yielded, everSucceeded, exhausted, passSkip,
                   passStored>>

\* onLoadButton: iter(...), set_skip_annotated(...) for a local folder, _next()
LoadIter ==
    /\ kind \in {"local", "remote"}
    /\ lastOp = "init"
    /\ Iter

LoadSetSkip ==
    /\ kind = "local"
    /\ lastOp = "iter"
    /\ SetSkipAnnotated

LoadNext ==
    /\ \/ kind = "local" /\ lastOp = "set_skip_annotated"
       \/ kind = "remote" /\ lastOp = "iter"
    /\ GuiNext

onConfirmButton == Pressed("onConfirmButton")

ConfirmStore ==
    /\ lastOp = "onConfirmButton"
    /\ (LocalStoreAnnotations \/ RemoteStoreAnnotations)

ConfirmNext ==
    /\ lastOp = "store_annotations"
    /\ ConfirmProceeds(lastResult)
    /\ GuiNext

onCancelButton == Pressed("onCancelButton")

CancelNext ==
    /\ lastOp = "onCancelButton"
    /\ GuiNext

NextGui ==
    \/ LoadIter
    \/ LoadSetSkip
    \/ LoadNext
    \/ onConfirmButton
    \/ ConfirmStore
    \/ ConfirmNext
    \/ onCancelButton
    \/ CancelNext

InitGui == Init /\ kind \in {"local", "remote"}

SpecGui == InitGui /\ [][NextGui]_vars

(***************************************************************************)
(* VertebraLocatorWidget: what ends the life of an image iterator.         *)
(* cleanup only removes the observers and onSceneStartClose only resets    *)
(* the parameter node; onLoadButton assigns a newly constructed iterator   *)
(* to self._imageIterator, after which the old one is unreachable.  The    *)
(* new iterator is constructed from the same inputs; the disk and the      *)
(* server are as the old one left them.  Nothing is modelled after the     *)
(* widget is destroyed or the scene is closed.                             *)
(***************************************************************************)
cleanup == Pressed("cleanup")

onSceneStartClose == Pressed("onSceneStartClose")

onLoadButton ==
    /\ kind \in {"local", "remote"}
    /\ Idle
    /\ Steady
    /\ lastOp' = "init"
    /\ lastResult' = "ok"
    /\ _current_scan_index' = NoAttr
    /\ _current_scan' = None
    /\ _current_scan_folder' = None
    /\ _current_annotation' = False
    /\ _skip_annotated' = FALSE
    /\ _patient' = None
    /\ ret' = None
    /\ copied' = {}
    /\ sent' = IF kind = "remote" THEN _get_scans(_server) ELSE <<>>
    /\ yielded' = <<>>
    /\ everSucceeded' = FALSE
    /\ exhausted' = FALSE
    /\ passSkip' = "none"
    /\ passStored' = FALSE
    /\ UNCHANGED <<kind, scansIsFrame, _scans, _filter, _server,
                   dirs, files, tmpCount, serverFiles>>

NextWidget ==
    \/ NextGui
    \/ cleanup
    \/ onSceneStartClose
    \/ onLoadButton

SpecWidget == InitGui /\ [][NextWidget]_vars

(***************************************************************************)
(* The two remote variants side by side.  The state variables hold an      *)
(* ImageIterator.SimpleXNAT; twin holds the iteration fields of an         *)
(* xnat.SimpleXNAT constructed over the same catalog.  Every iter() and    *)
(* next() made on the first is then made on the twin, before the next      *)
(* call.  xnat_iter and xnat_next are __iter__ and __next__ of xnat.py as  *)
(* functions of those fields (the folder of the twin is never extracted,   *)
(* so its removal changes nothing).                                        *)
(***************************************************************************)
xnat_iter(st) == [st EXCEPT !.index = IterIndex, !.result = "ok"]

xnat_next(st, scans) ==
    LET i == st.index IN
    IF i = NoAttr THEN [st EXCEPT !.result = "AttributeError"]
    ELSE IF Exhausted(i, Len(scans)) THEN [st EXCEPT !.result = "StopIteration"]
    ELSE [index |-> NextIndex(i),
          scan |-> Frame(<<scans[i + 1]>>),
          result |-> IF HasColumns(scans[i + 1]) THEN "ok" ELSE "KeyError"]

TwinCaughtUp == lastOp \notin {"iter", "next"}

TwinFrame ==
    /\ phase = "ready"
    /\ UNCHANGED <<kind, scansIsFrame, _scans, _filter, _server,
                   _current_scan_index, _current_scan, _current_scan_folder,
                   _current_annotation, _skip_annotated, _patient,
                   dirs, files, tmpCount, serverFiles, lastResult, ret, sent,
                   copied, yielded, everSucceeded, exhausted, passSkip,
                   passStored, phase, closed, served, call>>
    /\ UNCHANGED annotationVars

BothIter ==
    /\ kind = "remote"
    /\ TwinCaughtUp
    /\ Iter

TwinIter ==
    /\ lastOp = "iter"
    /\ lastOp' = "twin_iter"
    /\ twin' = xnat_iter(twin)
    /\ TwinFrame

BothNext ==
    /\ TwinCaughtUp
    /\ RemoteNextCall

TwinNext ==
    /\ lastOp = "next"
    /\ lastOp' = "twin_next"
    /\ twin' = xnat_next(twin, _scans)
    /\ TwinFrame

NextTwin == BothIter \/ TwinIter \/ BothNext \/ TwinNext

InitTwin == Init /\ kind = "remote"

SpecTwin == InitTwin /\ [][NextTwin]_vars

(***************************************************************************)
(* The source used in a with statement whose body raises.  The exception   *)
(* is in flight (lastOp "raise", lastResult its type) when __exit__ runs.  *)
(* What leaves the with statement: the exception __exit__ raises if it     *)
(* raises one; nothing if __exit__ returns a true value; else the          *)
(* exception of the body.                                                  *)
(***************************************************************************)
BodyExceptions == {"ValueError", "StopIteration"}

Truthy(v) == ~IsNone(v) /\ v # False

with_outcome(exc, exitResult, exitReturn) ==
    IF exitResult # "ok" THEN exitResult
    ELSE IF Truthy(exitReturn) THEN "ok"
    ELSE exc

BodyRaises ==
    /\ phase = "ready"
    /\ lastOp # "raise"
    /\ lastOp' = "raise"
    /\ lastResult' \in BodyExceptions
    /\ UNCHANGED <<kind, scansIsFrame, _scans, _filter, _server,
                   _current_scan_index, _current_scan, _current_scan_folder,
                   _current_annotation, _skip_annotated, _patient,
                   dirs, files, tmpCount, serverFiles, ret, sent,
                   copied, yielded, everSucceeded, exhausted, passSkip,
                   passStored, phase, closed, served, call, twin>>
    /\ UNCHANGED annotationVars

ExitAfterRaise ==
    /\ lastOp = "raise"
    /\ (LocalExit \/ RemoteExit)

WithBody ==
    /\ lastOp # "raise"
    /\ (Iter \/ LocalNextCall \/ RemoteNextCall \/ RemoteGetScanFolder)

NextWith == WithBody \/ BodyRaises \/ ExitAfterRaise

InitWith == Init /\ kind \in {"local", "remote"}

SpecWith == InitWith /\ [][NextWith]_vars

(***************************************************************************)
(* Vocabulary of the properties.                                           *)
(***************************************************************************)
Advanced == lastOp = "next" /\ lastResult = "ok"

Catalog == IF kind = "remote" THEN Masked(_scans, _filter) ELSE _scans

\* the value __next__ returns for the catalog row at Python index i
Returned(i) ==
    IF kind = "remote"
    THEN Str(Catalog[i + 1].session_label)
    ELSE Pair(Str(Catalog[i + 1]), _current_annotation)

WorkDirs == {d \in dirs : \E k \in 1..tmpCount : Under(TmpDir(k), d)}

SiblingJson(scan) ==
    Join(DirName(scan), StemOf(BaseName(scan)) \o DotJson)

RECURSIVE UnannotatedFrom(_)
UnannotatedFrom(i) ==
    IF i >= Len(_scans) THEN <<>>
    ELSE IF IsFile(AnnotationPath(_scans[i + 1])) THEN UnannotatedFrom(i + 1)
    ELSE <<i>> \o UnannotatedFrom(i + 1)

CurrentRow == _current_scan.rows[1]

\* C1: after begin(), the first successful advance() makes catalog entry 0
\* the current scan and returns it.
C1_FirstAdvanceIsFirstRow ==
    (Advanced /\ Len(yielded) = 1) =>
        /\ yielded[1] = 0
        /\ ret = Returned(0)

\* C2: on a remote source at most one scan working directory exists on disk
\* after any sequence of begin(), advance() and get_scan_folder() calls.
C2_AtMostOneWorkDir ==
    kind = "remote" => Cardinality(WorkDirs) <= 1

C2_Witness ==
    /\ kind = "remote"
    /\ tmpCount = 2
    /\ lastOp = "get_scan_folder"
    /\ lastResult = "ok"
    /\ WorkDirs = {_current_scan_folder.s}

\* C3: in a pass with the skip flag off the rows advance() returns are in
\* strictly increasing catalog order, none twice, and each returned value is
\* the catalog row at that position.
C3_IncreasingOrder ==
    passSkip = "off" =>
        /\ \A i, j \in 1..Len(yielded) : i < j => yielded[i] < yielded[j]
        /\ Advanced => /\ InRange(yielded[Len(yielded)], Len(Catalog))
                       /\ ret = Returned(yielded[Len(yielded)])

C3_Witness ==
    /\ passSkip = "off"
    /\ Advanced
    /\ Len(yielded) >= 2
    /\ kind = "remote"

\* C4: an advance() begun with no catalog row after the position signals
\* StopIteration, and once advance() has signalled StopIteration in a pass
\* every further advance() of that pass signals StopIteration again and no
\* other error.
NoRowLeft ==
    /\ _current_scan_index # NoAttr
    /\ _current_scan_index + 1 >= Len(Catalog)

RemovalFailed ==
    /\ lastResult' = "OSError"
    /\ ~IsNone(_current_scan_folder)
    /\ Exists(Disk, _current_scan_folder.s)
    /\ UNCHANGED <<_current_scan_index, _current_scan, _current_scan_folder,
                   dirs, files>>

C6_SkipPassYieldsUnannotated ==
    (/\ kind = "local"
     /\ ~scansIsFrame
     /\ passSkip = "on"
     /\ ~passStored
     /\ lastOp = "next"
     /\ lastResult = "StopIteration") => yielded = UnannotatedFrom(0)

\* C7: with the skip flag on, advance() never leaves the remote source on a
\* row for which has_annotation() is true.
C7_RemoteSkipNeverAnnotated ==
    (kind = "remote" /\ Advanced /\ _skip_annotated) => ~HasAnnotation

\* C8: after a successful advance(), has_annotation() is true exactly when
\* an annotation artifact exists for the current scan (remote: the file in
\* the scan's ANNOTATIONS resource; local: the sibling .json file).
C8_HasAnnotationIffArtifact ==
    Advanced =>
        (HasAnnotation <=>
            IF kind = "remote"
            THEN FileUrl(_server, CurrentRow) \in serverFiles
            ELSE IsFile(SiblingJson(_current_scan.s)))

\* C9: a remote store_annotations for the current row (p, s, e, n, l) that
\* runs to its end has sent exactly PUT .../projects/p/subjects/s/
\* experiments/e/scans/n/resources/ANNOTATIONS and then PUT of the file to
\* that url followed by /files/l-n.json; one that fails has sent a prefix.
C9_Container ==
    _server \o <<"/data/projects/">> \o CurrentRow.project
            \o <<"/subjects/">> \o CurrentRow.subject_id
            \o <<"/experiments/">> \o CurrentRow.session_id
            \o <<"/scans/">> \o ToStr(CurrentRow.id)
            \o <<"/resources/ANNOTATIONS">>

C9_Expected ==
    << [method |-> "PUT", url |-> C9_Container, file |-> FALSE],
       [method |-> "PUT",
        url |-> C9_Container \o <<"/files/">> \o CurrentRow.session_label
                             \o <<"-">> \o ToStr(CurrentRow.id) \o <<".json">>,
        file |-> TRUE] >>

C9_StoreRequestsInOrder ==
    (kind = "remote" /\ lastOp = "store_annotations" /\ ~IsNone(_current_scan)) =>
        /\ lastResult = "ok" => sent = C9_Expected
        /\ \E n \in 1..2 : sent = SubSeq(C9_Expected, 1, n)

C9_Witness ==
    /\ kind = "remote"
    /\ lastOp = "store_annotations"
    /\ lastResult = "ok"
    /\ CurrentRow = RowA

\* C10: store_annotations on a source on which no advance() has succeeded
\* ends in an error, sends no request and copies no file.
C10_StoreBeforeAdvanceFails ==
    (lastOp = "store_annotations" /\ ~everSucceeded) =>
        /\ lastResult # "ok"
        /\ sent = <<>>
        /\ copied = {}

\* C11: a remote store_annotations whose resource request or file upload
\* failed (transport error or HTTP error response) reports an error: it
\* returns normally only when the annotation artifact is stored.
C11_StoreReportsFailure ==
    (kind = "remote" /\ lastOp = "store_annotations" /\ lastResult = "ok") =>
        FileUrl(_server, CurrentRow) \in serverFiles

SourceState ==
    <<_scans, _filter, _current_scan_index, _current_scan,
      _current_scan_folder, _current_annotation, _skip_annotated, _patient,
      closed, dirs, files>>

\* C12: __exit__ is idempotent: whatever state it is called in, and also
\* when called twice in a row, it does not raise and leaves no working
\* directory on disk, and the second of two calls in a row leaves the source
\* and the disk as the first left them.
C12_ExitIdempotent ==
    [][lastOp' = "exit" =>
          /\ lastResult' = "ok"
          /\ WorkDirs' = {}
          /\ lastOp = "exit" => SourceState' = SourceState]_vars

\* C13: over the lifetime of a remote source at most one DELETE
\* <server>/data/JSESSION is sent: once an __exit__ has closed the session
\* and sent it, no later call sends it again.
C13_AtMostOneSessionDelete ==
    [][closed => \A k \in DOMAIN sent' : sent'[k] # SessionDelete(_server)]_vars

\* C14: every __exit__ of a remote source ends with the working directory
\* absent from disk, the session closed and DELETE <server>/data/JSESSION
\* sent, also when deleting the working directory fails.
C14_ExitReleasesSession ==
    (kind \in {"remote", "xnat"} /\ lastOp = "exit") =>
        /\ WorkDirs = {}
        /\ closed
        /\ sent = <<SessionDelete(_server)>>

Materialized ==
    kind = "remote" /\ lastOp = "get_scan_folder" /\ lastResult = "ok"

ArchiveFile == _current_scan_folder.s \o <<".zip">>

\* C15: after a successful get_scan_folder on the remote source every
\* non-directory entry of the served archive is a file directly under the
\* working directory, named by its basename; the working directory has no
\* subdirectory; the downloaded archive is gone.
C15_ExtractedFlat ==
    Materialized =>
        LET w == _current_scan_folder.s
            names == {BaseName(served.entries[k]) :
                        k \in {j \in 1..Len(served.entries) :
                                 Last(served.entries[j]) # "/"}}
        IN  /\ \A n \in names : w \o <<"/">> \o n \in files
            /\ ~\E d \in dirs : Under(w, d)
            /\ ArchiveFile \notin files

C15_Witness ==
    /\ Materialized
    /\ served.entries = ArchNested
    /\ _current_scan_folder.s \o <<"/", "scan001.dcm">> \in files
    /\ _current_scan_folder.s \o <<"/", "scan002.dcm">> \in files

\* C16: get_scan_folder is idempotent within a step: a second successful
\* call for the same current scan and the same served archive leaves the
\* disk, the fields of the source and the returned folder as the first call
\* left them; and an advance() that follows a step in which get_scan_folder
\* was never called removes nothing, raises no error (it returns the next
\* row or signals StopIteration) and leaves no directory of that step's
\* working-directory path.
C16_MaterializeIdempotent ==
    [][/\ (Materialized /\ Materialized' /\ served' = served) =>
            /\ dirs' = dirs
            /\ files' = files
            /\ SourceState' = SourceState
            /\ ret' = ret
       /\ (kind = "remote" /\ Advanced /\ lastOp' = "next") =>
            /\ lastResult' \in {"ok", "StopIteration"}
            /\ ~Exists(Disk', _current_scan_folder.s)]_vars

C16_Witness ==
    /\ Materialized
    /\ served.entries = ArchNested
    /\ tmpCount = 2
    /\ Cardinality(files) = 2

\* C17: a get_scan_folder that fails after the download (the body is no
\* zip archive, or extracting an entry fails) raises the error and leaves
\* neither the downloaded archive file nor the working directory on disk.
C17_FailedMaterializeCleansUp ==
    (/\ kind = "remote"
     /\ lastOp = "get_scan_folder"
     /\ lastResult \in {"BadZipFile", "OSError"}) =>
        /\ ArchiveFile \notin files
        /\ ~Exists(Disk, _current_scan_folder.s)

\* C18: constructing a SimpleXNAT (either variant) without both user and
\* pwd, when ~/.netrc has no entry for the server, fails with an error:
\* no search request is sent and no catalog is installed.
C18_NoCredentialsFails ==
    [][(/\ phase = "new"
        /\ kind \in {"remote", "xnat"}
        /\ ~call.explicit
        /\ call.netrc # "entry") =>
          /\ phase' = "failed"
          /\ lastResult' \in {"TypeError", "FileNotFoundError"}
          /\ sent' = <<>>
          /\ _scans' = None]_vars

C18_Witness ==
    /\ phase = "failed"
    /\ kind = "remote"
    /\ lastOp = "init"
    /\ lastResult = "TypeError"
    /\ sent = <<>>

SearchRequest == Request("POST", SearchUrl(_server), TRUE)

\* C19: the catalog of a remote source is fetched exactly once, at
\* construction: a construction that returns has sent exactly one search
\* request, and no later __iter__, __next__, get_scan_folder,
\* store_annotations or __exit__ sends a search request or changes the rows
\* of the catalog or their order.
C19_CatalogFetchedOnce ==
    /\ []((kind = "remote" /\ phase = "ready" /\ lastOp = "init") =>
             sent = <<SearchRequest>>)
    /\ [][(kind = "remote" /\ phase = "ready") =>
             /\ _scans' = _scans
             /\ \A k \in DOMAIN sent' : sent'[k].url # SearchUrl(_server)]_vars

C19_Witness ==
    /\ kind = "remote"
    /\ phase = "ready"
    /\ lastOp = "exit"
    /\ passStored = FALSE
    /\ tmpCount = 2
    /\ Len(_scans) = 3
    /\ FileUrl(_server, RowA) \in serverFiles

\* C20: filter_scan called with a field name outside the header set fails
\* with a KeyError that names an unknown field of the call, and leaves the
\* catalog, the filter mask and the position unchanged, in both SimpleXNAT
\* classes.
C20_UnknownFieldKeyError ==
    [][(lastOp' = "filter_scan" /\ \E k \in DOMAIN call' : call'[k] \notin Headers)
          => /\ lastResult' = "KeyError"
             /\ \E k \in DOMAIN call' : /\ call'[k] \notin Headers
                                        /\ ret' = Str(call'[k])
             /\ UNCHANGED <<_scans, _filter, _current_scan_index>>]_vars

\* C21: a filter_scan call whose field names all belong to the header set
\* succeeds, and an advance() after it never returns a row that the filter
\* excludes.
C21_KnownFieldsFilterSucceeds ==
    [][(/\ kind = "remote"
        /\ lastOp' = "filter_scan"
        /\ \A k \in DOMAIN call' : call'[k] \in Headers) =>
          lastResult' = "ok"]_vars

Schema ==
    {"C1", "C2", "C3", "T1", "T2", "T3", "L1", "L2", "L3", "S1", "S2", "S3"}

UnsetCoordinate == Tuple(<<None, None, None>>)

\* C22: set_coordinate and get_coordinate raise KeyError for every label
\* outside the schema, and a failed set_coordinate leaves the whole mapping
\* unchanged.
C22_UnknownLabelKeyError ==
    [][(/\ lastOp' \in {"set_coordinate", "get_coordinate"}
        /\ call'.label \notin Schema) =>
          /\ lastResult' = "KeyError"
          /\ _annotations' = _annotations]_vars

C22_Witness ==
    /\ lastOp = "set_coordinate"
    /\ lastResult = "KeyError"
    /\ call.label = "c1"
    /\ _annotations["C1"] = Tuple(<<PyInt(1), PyInt(2), PyInt(3)>>)

\* C23: after set_coordinate(L, x, y, z) for a schema label L the
\* coordinate of L is exactly (x, y, z) and every other coordinate is as
\* before; get_coordinate(L) returns the coordinate of L; no other call
\* changes a coordinate, and a new object has every label at
\* (None, None, None).
C23_SetThenGet ==
    /\ [](lastOp = "init" =>
            \A l \in Schema : _annotations[l] = UnsetCoordinate)
    /\ []((lastOp = "get_coordinate" /\ call.label \in Schema) =>
            /\ lastResult = "ok"
            /\ ret = _annotations[call.label])
    /\ [][/\ (lastOp' = "set_coordinate" /\ call'.label \in Schema) =>
               /\ lastResult' = "ok"
               /\ _annotations'[call'.label] = call'.point
          /\ \A l \in Schema :
               ~(lastOp' = "set_coordinate" /\ call'.label = l) =>
                   _annotations'[l] = _annotations[l]]_vars

C23_Witness ==
    /\ lastOp = "get_coordinate"
    /\ call.label = "L2"
    /\ ret = Tuple(<<PyInt(1), PyInt(2), PyInt(3)>>)
    /\ _annotations["S3"] = Tuple(<<PyInt(40), PyInt(0), None>>)
    /\ _annotations["C1"] = UnsetCoordinate

ParsedJson == Loads(ret.s)
ParsedAnnotations == ParsedJson.map["annotations"]

\* C24: parsing the text to_json returns gives, for every label, the three
\* values of its coordinate (None where unset), and no other label.  (JSON
\* has no tuple: the parsed coordinate is a list of the same three values.)
C24_JsonRoundTrip ==
    lastOp = "to_json" =>
        /\ ParsedAnnotations.tag = "dict"
        /\ DOMAIN ParsedAnnotations.map = DOMAIN _annotations
        /\ \A l \in DOMAIN _annotations :
              ParsedAnnotations.map[l].items = _annotations[l].items

C24_Witness ==
    /\ lastOp = "to_json"
    /\ _annotations["L2"] = Tuple(<<PyInt(1), PyInt(2), PyInt(3)>>)
    /\ _annotations["C1"] = Tuple(<<PyInt(40), PyInt(0), None>>)
    /\ _annotations["T1"] = UnsetCoordinate

\* C25: the keys of _annotations are always exactly the schema labels, and
\* the object to_json writes has exactly the fields project, subject,
\* session, scan and annotations, with one annotations entry per schema
\* label.
C25_LabelSetClosed ==
    /\ DOMAIN _annotations = Schema
    /\ lastOp = "to_json" =>
         /\ ParsedJson.tag = "dict"
         /\ ParsedJson.keys =
              <<"project", "subject", "session", "scan", "annotations">>
         /\ Len(ParsedAnnotations.keys) = 12
         /\ Range(ParsedAnnotations.keys) = Schema

C25_Witness ==
    /\ lastOp = "to_json"
    /\ _scan_id = PyInt(12)
    /\ _annotations["S3"] = Tuple(<<PyInt(1), PyInt(2), PyInt(3)>>)
    /\ _annotations["L2"] = Tuple(<<PyInt(1), PyInt(2), PyInt(3)>>)


\* C26: a store_annotations call of the local source that returns has copied
\* the file to <directory of the current scan>/<name of the scan file
\* without its .nii.gz suffix>.json, and to no other place.
C26_LocalStoreDestination ==
    (/\ kind = "local"
     /\ lastOp = "store_annotations"
     /\ lastResult = "ok") =>
        copied = {SiblingJson(_current_scan.s)}


\* C27: load_annotation returns a null result, without attempting a load,
\* when the current scan has no stored annotation (has_annotation() is
\* false), and returns a reference to the annotation when it has one.
C27_LoadNullWithoutAnnotation ==
    (lastOp = "load_annotation" /\ yielded # <<>>) =>
        IF HasAnnotation
        THEN lastResult = "ok" /\ ret # None
        ELSE lastResult = "ok" /\ ret = None


\* the paths earlier steps of the source derived: a temporary directory made
\* by mkdtemp holds the path of the step that made it; xnat.SimpleXNAT
\* derives the path from the row alone, so the rows of this pass and the
\* folder still current give the earlier paths
EarlierWorkDir(p) ==
    IF kind = "remote"
    THEN \E k \in 1..tmpCount : Under(TmpDir(k), p)
    ELSE \/ ~IsNone(_current_scan_folder) /\ _current_scan_folder.s = p
         \/ \E n \in 1..Len(yielded) :
               Join(GetTempDir, XnatFileName(_scans[yielded[n] + 1])) = p

\* C28: the working-directory path a successful advance() of a remote
\* source derives is none of the paths its earlier steps derived, whether
\* rows share session label and scan id or iter() has restarted the pass.
C28_WorkDirNeverReused ==
    /\ []((kind = "remote" /\ ~IsNone(_current_scan_folder)) =>
            \E k \in 1..tmpCount : Under(TmpDir(k), _current_scan_folder.s))
    /\ [][(/\ kind \in {"remote", "xnat"}
           /\ lastOp' = "next"
           /\ lastResult' = "ok") =>
             ~EarlierWorkDir(_current_scan_folder'.s)]_vars


\* C29: a remote source whose construction returned holds a catalog that
\* came from a successful search: the body of an error response is never
\* installed as _scans (the constructor fails instead).
C29_ErrorBodyNeverCatalog ==
    (kind \in {"remote", "xnat"} /\ phase = "ready") =>
        \A k \in 1..Len(_scans) : HasColumns(_scans[k])


CurrentStep == <<_current_scan_index, _current_scan, _current_scan_folder>>

\* C30: the confirm handler calls store_annotations first and next() only
\* after that call has returned; when store_annotations raises, next() is
\* not called, the current scan and its folder are as before the button was
\* pressed, and a button can be pressed again.  The cancel handler calls
\* next() and stores nothing.
C30_ConfirmStoresThenAdvances ==
    [][/\ lastOp = "onConfirmButton" => lastOp' = "store_annotations"
       /\ lastOp' = "next" =>
            \/ lastOp = "store_annotations" /\ lastResult = "ok"
            \/ lastOp \in {"onCancelButton", "iter", "set_skip_annotated"}
       /\ (lastOp' = "store_annotations" /\ lastResult' # "ok") =>
            CurrentStep' = CurrentStep
       /\ (lastOp = "store_annotations" /\ lastResult # "ok") =>
            /\ lastOp' \in {"onConfirmButton", "onCancelButton"}
            /\ CurrentStep' = CurrentStep
       /\ lastOp = "onCancelButton" =>
            /\ lastOp' = "next"
            /\ sent' = <<>>
            /\ copied' = {}
            /\ serverFiles' = serverFiles
            /\ passStored' = passStored]_vars

C30_Witness ==
    /\ lastOp = "onConfirmButton"
    /\ kind = "remote"
    /\ sent # <<>>
    /\ lastResult = "ConnectionError"
    /\ ~IsNone(_current_scan_folder)


\* the rows of the catalog behind the index i
RemainingRows(i) == IF i + 1 < Len(_scans) THEN Len(_scans) - (i + 1) ELSE 0

\* every call of LocalFileIterator.__next__, the nested ones included, adds
\* one to _current_scan_index
NextCalls == _current_scan_index' - _current_scan_index

\* C31: with the skip flag on, a next() of the local source returns or
\* raises after a finite number of nested calls: the nested calls are at most
\* the rows remaining behind the index, and so are the rows it probes.
C31_SkipRecursionBounded ==
    [][(/\ kind = "local"
        /\ _skip_annotated
        /\ _current_scan_index # NoAttr
        /\ lastOp' = "next") =>
          /\ NextCalls >= 1
          /\ NextCalls - 1 <= RemainingRows(_current_scan_index)
          /\ (NextCalls - IF lastResult' = "ok" THEN 0 ELSE 1)
                <= RemainingRows(_current_scan_index)]_vars

C31_Witness ==
    /\ kind = "local"
    /\ lastOp = "next"
    /\ lastResult = "ok"
    /\ _skip_annotated
    /\ passSkip = "on"
    /\ yielded = <<3>>


\* C32: the path a store_annotations call of the local source that returns
\* has written is the path __next__ probes for the annotation of that scan.
C32_StoredPathIsProbedPath ==
    (/\ kind = "local"
     /\ lastOp = "store_annotations"
     /\ lastResult = "ok") =>
        copied = {AnnotationPath(_current_scan.s)}


\* the source holds nothing: its session is closed (remote) and its current
\* folder, if any, is not on disk
Released ==
    /\ kind = "remote" => closed
    /\ IsNone(_current_scan_folder) \/ ~Exists(Disk, _current_scan_folder.s)

\* C33: when the widget is cleaned up or the scene closes the handler has
\* torn the source down, and a source that onLoadButton replaces has been
\* torn down before: no source is dropped while it holds a folder on disk or
\* an open session.
C33_GuiTearsDown ==
    /\ [](lastOp \in {"cleanup", "onSceneStartClose"} => Released)
    /\ [][(lastOp' = "init") => Released]_vars


\* the catalog row the most recent successful next() of this pass returned
LastReturnedRow == Catalog[yielded[Len(yielded)] + 1]

\* C34: a store_annotations call that returns has written the annotation of
\* the scan the most recent successful next() returned: there has been such
\* a next(), and the file copied (local) or the requests sent (remote) are
\* those of its row.
C34_StoreTargetsReturnedScan ==
    (lastOp = "store_annotations" /\ lastResult = "ok") =>
        /\ everSucceeded
        /\ yielded # <<>> =>
             IF kind = "local"
             THEN copied = {LocalDst(DirName(LastReturnedRow), LastReturnedRow)}
             ELSE sent = StoreRequests(_server, LastReturnedRow)


\* what is on disk (the disk of a remote source starts empty, so the source
\* has created all of it)
OnDisk == dirs \cup files

\* C35: after a next() of the remote source that returned, the only thing
\* on disk is the temporary directory that call has made, and after
\* __exit__ has returned nothing the source created is on disk.
C35_NothingLeftAcrossSteps ==
    /\ (kind = "remote" /\ lastOp = "next" /\ lastResult = "ok") =>
          OnDisk \subseteq {TmpDir(tmpCount)}
    /\ (kind = "remote" /\ lastOp = "exit" /\ lastResult = "ok") =>
          OnDisk = {}


\* C36: after the same iter() and next() calls on the same catalog the two
\* remote variants agree: each next() ends the same way in both (a return
\* or StopIteration), and both hold the same current scan.
C36_VariantsAgree ==
    lastOp = "twin_next" =>
        /\ twin.result = lastResult
        /\ twin.scan = _current_scan


\* C37: once __exit__ has closed the session of a remote source, no later
\* call sends a request.
C37_NoRequestAfterClose ==
    [][(kind \in {"remote", "xnat"} /\ closed) => sent' = <<>>]_vars


\* the iteration position, the current scan, the catalog and the value
\* has_annotation() reads
Position ==
    <<_current_scan_index, _current_scan, _scans, _filter,
      _current_annotation>>

\* C38: set_skip_annotated, get_scan_folder and store_annotations leave the
\* index, the current scan, the catalog and _current_annotation as they
\* were; set_skip_annotated changes nothing but the flag; store_annotations
\* leaves the folder of the current scan and everything on disk as it was,
\* the local one adding only the annotation file it copies.
C38_FrameOfSideOperations ==
    [][/\ lastOp' \in {"set_skip_annotated", "get_scan_folder",
                       "store_annotations"} =>
            Position' = Position
       /\ lastOp' = "set_skip_annotated" =>
            /\ UNCHANGED <<_current_scan_folder, _patient, dirs, files,
                           serverFiles, closed>>
            /\ sent' = <<>>
       /\ lastOp' = "store_annotations" =>
            /\ UNCHANGED <<_current_scan_folder, _skip_annotated, dirs>>
            /\ files' = files \cup copied'
            /\ kind = "remote" => files' = files]_vars

C38_Witness ==
    /\ kind = "remote"
    /\ lastOp = "store_annotations"
    /\ lastResult = "ok"
    /\ _current_scan_index = 2
    /\ _skip_annotated
    /\ ~IsNone(_current_scan_folder)
    /\ WorkDirs = {_current_scan_folder.s}


\* C39: when the body of a with statement over a source raises, the
\* exception that leaves the with statement after __exit__ has run is the
\* exception of the body.
C39_ExitKeepsException ==
    [][(lastOp = "raise" /\ lastOp' = "exit") =>
          with_outcome(lastResult, lastResult', ret') = lastResult]_vars

====
